---- MODULE Spec2Model ----
(***************************************************************************)
(* Model of the batch / parallel orchestrator of automatix                 *)
(* (src/automatix/__init__.py): get_script_and_batch_items,                *)
(* run_batch_items, run_parallel_screens and the part of main that calls   *)
(* them.  Python objects live in a heap of references so that aliasing     *)
(* (CONFIG, args) and copying (deepcopy) are distinguishable.              *)
(***************************************************************************)
EXTENDS Integers, Sequences, FiniteSets, TLC

\* ---------------------------------------------------------------- bounds
MaxItems == 2
MaxArgLen == 4
NSteps == 3
MaxMutations == 1

\* ------------------------------------------------------------ dictionaries
Put(d, k, v) == [x \in (DOMAIN d) \cup {k} |-> IF x = k THEN v ELSE d[x]]

EmptyRow == [f \in {} |-> ""]

\* the CSV files considered: n records with the one column "host", whose
\* values alternate so that neighbouring rows differ
RowAt(k) == [f \in {"host"} |-> IF k % 2 = 1 THEN "a" ELSE "b"]

RowLists == {[k \in 1..n |-> RowAt(k)] : n \in 0..MaxItems}

\* ------------------------------------------------- step-selection argument
Digits == {"1", "2", "3"}

ArgChars == {"e", ","} \cup Digits

ArgStrings == UNION {[1..n -> ArgChars] : n \in 0..MaxArgLen}

DigitVal(c) == CASE c = "1" -> 1 [] c = "2" -> 2 [] c = "3" -> 3

startswith(s, c) == Len(s) > 0 /\ s[1] = c

Tail1(s) == SubSeq(s, 2, Len(s))

RECURSIVE split(_)
split(s) ==
    IF \A k \in 1..Len(s) : s[k] # ","
    THEN <<s>>
    ELSE LET p == CHOOSE k \in 1..Len(s) :
                      s[k] = "," /\ \A m \in 1..(k - 1) : s[m] # ","
         IN  <<SubSeq(s, 1, p - 1)>> \o split(SubSeq(s, p + 1, Len(s)))

int_ok(piece) == Len(piece) > 0 /\ \A k \in 1..Len(piece) : piece[k] \in Digits

RECURSIVE int(_)
int(piece) ==
    IF Len(piece) = 0 THEN 0
    ELSE 10 * int(SubSeq(piece, 1, Len(piece) - 1)) + DigitVal(piece[Len(piece)])

\* mutant of StepsBody: the first character is always dropped
StepsBody_always_strips(s) == Tail1(s)

\* line 68: args.steps[1:] if exclude else args.steps
StepsBody(s) == IF startswith(s, "e") THEN Tail1(s) ELSE s

ParseOk(s) == \A k \in 1..Len(split(StepsBody(s))) : int_ok(split(StepsBody(s))[k])

ParseSteps(s) == {int(split(StepsBody(s))[k]) : k \in 1..Len(split(StepsBody(s)))}

\* ------------------------------------------------------------------ heap
\* Python objects: a reference maps to [val, mark].  val is the object's
\* content; mark is 0 while nobody has mutated the object through a run
\* context and k once a step of batch item k has mutated it.
ScriptRef == 1

ConfigRef == 2

ArgsRef == 3

Fresh(h) == (CHOOSE r \in DOMAIN h : \A q \in DOMAIN h : q <= r) + 1

Alloc(h, obj) == [r \in (DOMAIN h) \cup {Fresh(h)} |-> IF r = Fresh(h) THEN obj ELSE h[r]]

SetVal(h, r, v) == [h EXCEPT ![r].val = v]

SetMark(h, r, k) == [h EXCEPT ![r].mark = k]

VARIABLES
    pc,            \* position of the launching process in main / run_*
    heap,          \* reference -> object
    csvfile,       \* rows of the CSV file named by args.vars_file
    PROGRESS_BAR,  \* whether python_progress_bar could be imported
    batch_items,   \* list returned by get_script_and_batch_items
    cmd_class,     \* result of get_command_class
    i,             \* loop index of enumerate(batch_items, start=1)
    autos,         \* Automatix objects constructed so far, in order
    built,         \* calls of update_script_from_row: <<row, index>>
    stepPos,       \* position of auto.run() in the effective step list
    executed,      \* <<item, step>> pairs whose execution was started
    signals,       \* what was raised so far: [item, kind, code, at]
    warnings,      \* number of LOG.warning('Aborted by user') calls
    exitStatus,    \* {} while running, {c} after sys.exit(c) / normal end
    exc,           \* exception propagating out of main, "none" otherwise
    mutations,     \* number of mutating steps so far
    tempdir,       \* "none", "exists" or "removed": the TemporaryDirectory
    files,         \* name -> [content, writes]: what tempdir holds
    time_id,       \* {} or {round(time())}
    screen,        \* the screen command of line 135
    overview,      \* the overview process started in the screen session
    fifoLines,     \* lines written to the rendezvous channel and not yet read
    observed,      \* lines the launching process has read from it
    launchRc,      \* {} or {returncode of the launch command}
    loaded         \* item -> the context the overview side rebuilt from auto{item}

vars == <<pc, heap, csvfile, PROGRESS_BAR, batch_items, cmd_class, i, autos,
          built, stepPos, executed, signals, warnings, exitStatus, exc, mutations,
          tempdir, files, time_id, screen, overview, fifoLines, observed, launchRc,
          loaded>>

args == heap[ArgsRef].val

script == heap[ScriptRef].val

CONFIG == heap[ConfigRef].val

\* -------------------------------------------------------------------- Init
SmallStepArgs == {<<>>, <<"e", "2">>, <<"2", ",", "3">>, <<"e">>}

InitWith(stepArgs, vfs, pars) ==
    /\ pc = "main"
    /\ \E vf \in vfs, par \in pars, st \in stepArgs, bw \in BOOLEAN :
         heap = [r \in {ScriptRef, ConfigRef, ArgsRef} |->
                   CASE r = ScriptRef ->
                          [val |-> [vars |-> [f \in {"host"} |-> "d"]], mark |-> 0]
                     [] r = ConfigRef ->
                          [val |-> [bundlewrap |-> bw], mark |-> 0]
                     [] r = ArgsRef ->
                          [val |-> [vars_file |-> vf, parallel |-> par, steps |-> st],
                           mark |-> 0]]
    /\ csvfile \in RowLists
    /\ (~heap[ArgsRef].val.vars_file => csvfile = <<>>)
    /\ PROGRESS_BAR \in BOOLEAN
    /\ batch_items = <<>>
    /\ cmd_class = "none"
    /\ i = 0
    /\ autos = <<>>
    /\ built = <<>>
    /\ stepPos = 0
    /\ executed = {}
    /\ signals = {}
    /\ warnings = 0
    /\ exitStatus = {}
    /\ exc = "none"
    /\ mutations = 0
    /\ tempdir = "none"
    /\ files = [f \in {} |-> 0]
    /\ time_id = {}
    /\ screen = "none"
    /\ overview = "none"
    /\ fifoLines = 0
    /\ observed = 0
    /\ launchRc = {}
    /\ loaded = <<>>

Init == InitWith(SmallStepArgs, BOOLEAN, BOOLEAN)

\* ------------------------------------------------- get_script_and_batch_items
\* lines 58-64: the batch rows and the batch metadata of the script
BatchItemsOf(a, csv) == IF a.vars_file THEN csv ELSE <<EmptyRow>>

\* mutant of BatchMeta: the count is the number of rows in both modes
BatchMeta_count_rows(s, a, csv) ==
    IF a.vars_file
    THEN Put(Put(s, "batch_mode", ~a.parallel),
             "batch_items_count", Len(csv))
    ELSE s

BatchMeta(s, a, csv) ==
    IF a.vars_file
    THEN Put(Put(s, "batch_mode", ~a.parallel),
             "batch_items_count", IF a.parallel THEN 1 ELSE Len(csv))
    ELSE s

\* line 67: script['exclude'] = args.steps.startswith('e')
WithExclude(s, a) == IF Len(a.steps) > 0 THEN Put(s, "exclude", startswith(a.steps, "e")) ELSE s

\* line 68: script['steps'] = {int(s) for s in ....split(',')}
WithSteps(s, a) == IF Len(a.steps) > 0 THEN Put(s, "steps", ParseSteps(a.steps)) ELSE s

GetScriptAndBatchItems ==
    /\ pc = "main"
    /\ IF Len(args.steps) > 0 /\ ~ParseOk(args.steps)
       THEN \* int() raises ValueError after line 67 has run
            /\ heap' = SetVal(heap, ScriptRef, WithExclude(BatchMeta(script, args, csvfile), args))
            /\ batch_items' = batch_items
            /\ pc' = "raised"
            /\ exc' = "ValueError"
       ELSE /\ batch_items' = BatchItemsOf(args, csvfile)
            /\ heap' = SetVal(heap, ScriptRef,
                         WithSteps(WithExclude(BatchMeta(script, args, csvfile), args), args))
            /\ pc' = "dispatch"
            /\ exc' = exc
    /\ UNCHANGED <<csvfile, PROGRESS_BAR, cmd_class, i, autos, built, stepPos,
                   executed, signals, warnings, exitStatus, mutations, tempdir, files, time_id, screen, overview, fifoLines, observed, launchRc, loaded>>

\* ---------------------------------------------------------------- helpers
RECURSIVE Ascending(_)
Ascending(S) ==
    IF S = {} THEN <<>>
    ELSE LET m == CHOOSE x \in S : \A y \in S : x <= y
         IN  <<m>> \o Ascending(S \ {m})

\* Step Selector (Automatix, not in src): the positions auto.run() executes
EffectiveSteps(s) ==
    IF "steps" \in DOMAIN s
    THEN IF s.exclude THEN Ascending((1..NSteps) \ s.steps)
                      ELSE Ascending(s.steps \cap (1..NSteps))
    ELSE Ascending(1..NSteps)

\* lines 45-52: get_command_class
CommandClassOf(cfg) == IF cfg.bundlewrap THEN "BWCommand" ELSE "Command"

ConfigAfterCommandClass(cfg) ==
    IF cfg.bundlewrap THEN Put(cfg, "bw_repo", "AutomatixBwRepo") ELSE cfg

\* mutant of deepcopy: the same object instead of a copy
deepcopy_alias(h, r) == [heap |-> h, ref |-> r]

\* line 77 / 114: deepcopy(script): a new object with the same content
deepcopy(h, r) == [heap |-> Alloc(h, [val |-> h[r].val, mark |-> 0]), ref |-> Fresh(h)]

\* update_script_from_row (config.py, not in src): row fields override the
\* variables of the script it is handed
update_script_from_row(row, s, index) ==
    [s EXCEPT !.vars = [f \in (DOMAIN s.vars) \cup (DOMAIN row) |->
                           IF f \in DOMAIN row THEN row[f] ELSE s.vars[f]]]

\* collect_vars (config.py, not in src): the variable mapping of one script
collect_vars(h, r) == [heap |-> Alloc(h, [val |-> h[r].val.vars, mark |-> 0]), ref |-> Fresh(h)]

\* mutant of Automatix: handed the template instead of the copy
Automatix_template(script_copy, variables, cls, batch_index) ==
    [script |-> ScriptRef, variables |-> variables, config |-> ConfigRef,
     cmd_class |-> cls, cmd_args |-> ArgsRef, batch_index |-> batch_index,
     command_count |-> {}]

\* lines 82-90 / 119-127: the Automatix object and what it refers to
Automatix(script_copy, variables, cls, batch_index) ==
    [script |-> script_copy, variables |-> variables, config |-> ConfigRef,
     cmd_class |-> cls, cmd_args |-> ArgsRef, batch_index |-> batch_index,
     command_count |-> {}]

\* set_command_count (Automatix, not in src)
set_command_count(auto, h) ==
    [auto EXCEPT !.command_count = {Len(EffectiveSteps(h[auto.script].val))}]

\* lines 77-90 / 114-127: one context of the batch loop, built for row and index
BuildContext(h, row, index, cls, batch_index) ==
    LET c  == deepcopy(h, ScriptRef)
        h1 == SetVal(c.heap, c.ref, update_script_from_row(row, c.heap[c.ref].val, index))
        v  == collect_vars(h1, c.ref)
    IN  [heap |-> v.heap, auto |-> Automatix(c.ref, v.ref, cls, batch_index)]

\* ---------------------------------------------------------- run_batch_items
AbortCodes == {0, 1, 2}

MutTargets == {"script", "variables", "config", "cmd_args"}

\* line 74
SeqStart ==
    /\ pc = "seq_start"
    /\ cmd_class' = CommandClassOf(CONFIG)
    /\ heap' = SetVal(heap, ConfigRef, ConfigAfterCommandClass(CONFIG))
    /\ pc' = "seq_next"
    /\ UNCHANGED <<csvfile, PROGRESS_BAR, batch_items, i, autos, built, stepPos,
                   executed, signals, warnings, exitStatus, exc, mutations, tempdir, files, time_id, screen, overview, fifoLines, observed, launchRc, loaded>>

\* mutant of SeqNext: the loop stops one row early
SeqNext_off_by_one ==
    /\ pc = "seq_next"
    /\ IF i + 1 < Len(batch_items)
       THEN i' = i + 1 /\ pc' = "seq_build"
       ELSE i' = i /\ pc' = "returned"
    /\ UNCHANGED <<heap, csvfile, PROGRESS_BAR, batch_items, cmd_class, autos, built,
                   stepPos, executed, signals, warnings, exitStatus, exc, mutations,
                   tempdir, files, time_id, screen, overview, fifoLines, observed, launchRc, loaded>>

\* line 76: the for loop takes the next row, or ends
SeqNext ==
    /\ pc = "seq_next"
    /\ IF i < Len(batch_items)
       THEN i' = i + 1 /\ pc' = "seq_build"
       ELSE i' = i /\ pc' = "returned"
    /\ UNCHANGED <<heap, csvfile, PROGRESS_BAR, batch_items, cmd_class, autos, built,
                   stepPos, executed, signals, warnings, exitStatus, exc, mutations, tempdir, files, time_id, screen, overview, fifoLines, observed, launchRc, loaded>>

\* lines 77-90
SeqBuild ==
    /\ pc = "seq_build"
    /\ LET b == BuildContext(heap, batch_items[i], i, cmd_class, i)
       IN  /\ heap' = b.heap
           /\ autos' = Append(autos, b.auto)
    /\ built' = Append(built, <<batch_items[i], i>>)
    /\ pc' = "seq_count"
    /\ UNCHANGED <<csvfile, PROGRESS_BAR, batch_items, cmd_class, i, stepPos,
                   executed, signals, warnings, exitStatus, exc, mutations, tempdir, files, time_id, screen, overview, fifoLines, observed, launchRc, loaded>>

\* mutant of SeqSetCommandCount: the run starts without the counter
SeqSetCommandCount_missing ==
    /\ pc = "seq_count"
    /\ autos' = autos
    /\ stepPos' = 1
    /\ pc' = "seq_run"
    /\ UNCHANGED <<heap, csvfile, PROGRESS_BAR, batch_items, cmd_class, i, built,
                   executed, signals, warnings, exitStatus, exc, mutations, tempdir, files, time_id, screen, overview, fifoLines, observed, launchRc, loaded>>

\* lines 91-92
SeqSetCommandCount ==
    /\ pc = "seq_count"
    /\ autos' = [autos EXCEPT ![Len(autos)] = set_command_count(autos[Len(autos)], heap)]
    /\ stepPos' = 1
    /\ pc' = "seq_run"
    /\ UNCHANGED <<heap, csvfile, PROGRESS_BAR, batch_items, cmd_class, i, built,
                   executed, signals, warnings, exitStatus, exc, mutations, tempdir, files, time_id, screen, overview, fifoLines, observed, launchRc, loaded>>

\* a KeyboardInterrupt raised outside the try block of lines 93-103
InterruptOutsideTry ==
    /\ pc \in {"seq_build", "seq_count"}
    /\ signals' = signals \cup {[item |-> i, kind |-> "interrupt", code |-> 0, at |-> pc]}
    /\ pc' = "raised"
    /\ exc' = "KeyboardInterrupt"
    /\ UNCHANGED <<heap, csvfile, PROGRESS_BAR, batch_items, cmd_class, i, autos, built,
                   stepPos, executed, warnings, exitStatus, mutations, tempdir, files, time_id, screen, overview, fifoLines, observed, launchRc, loaded>>

\* a step mutating, through the running context, one of the objects it holds
MutateThrough(h, auto, target, k) ==
    IF target = "none" THEN h ELSE SetMark(h, auto[target], k)

\* mutant of OnSkip: break instead of continue
OnSkip_break ==
    /\ pc' = "returned"
    /\ UNCHANGED <<warnings, exitStatus, exc>>

\* lines 95-98: except SkipBatchItemException ... continue
OnSkip ==
    /\ pc' = "seq_next"
    /\ UNCHANGED <<warnings, exitStatus, exc>>

\* mutant of OnAbort: sys.exit(1) whatever the code
OnAbort_exit_1(code) ==
    /\ exitStatus' = {1}
    /\ pc' = "exited"
    /\ UNCHANGED <<warnings, exc>>

\* lines 99-100: except AbortException as exc: sys.exit(int(exc))
OnAbort(code) ==
    /\ exitStatus' = {code}
    /\ pc' = "exited"
    /\ UNCHANGED <<warnings, exc>>

\* lines 101-103: except KeyboardInterrupt: LOG.warning(...); sys.exit(130)
OnKeyboardInterrupt ==
    /\ warnings' = warnings + 1
    /\ exitStatus' = {130}
    /\ pc' = "exited"
    /\ UNCHANGED exc

\* mutant of OnOtherException: a catch-all clause that goes on with the loop
OnOtherException_swallowed ==
    /\ pc' = "seq_next"
    /\ UNCHANGED <<warnings, exitStatus, exc>>

\* no except clause matches: the exception leaves run_batch_items
OnOtherException ==
    /\ pc' = "raised"
    /\ exc' = "ExecutionError"
    /\ UNCHANGED <<warnings, exitStatus>>

\* what a step may raise (command.py, not in src)
RaisedSignals ==
    {[kind |-> k, code |-> 0] : k \in {"skip", "interrupt", "error"}}
        \cup {[kind |-> "abort", code |-> c] : c \in AbortCodes}

\* line 94: auto.run() starts its next effective step, which completes
RunStepOk ==
    /\ pc = "seq_run"
    /\ stepPos <= Len(EffectiveSteps(heap[autos[i].script].val))
    /\ \E m \in MutTargets \cup {"none"} :
         /\ m # "none" => mutations < MaxMutations
         /\ heap' = MutateThrough(heap, autos[i], m, i)
         /\ mutations' = IF m = "none" THEN mutations ELSE mutations + 1
    /\ executed' = executed \cup {<<i, EffectiveSteps(heap[autos[i].script].val)[stepPos]>>}
    /\ stepPos' = stepPos + 1
    /\ UNCHANGED <<pc, csvfile, PROGRESS_BAR, batch_items, cmd_class, i, autos, built,
                   signals, warnings, exitStatus, exc, tempdir, files, time_id, screen, overview, fifoLines, observed, launchRc, loaded>>

\* line 94: auto.run() starts its next effective step, which raises
RunStepRaises ==
    /\ pc = "seq_run"
    /\ stepPos <= Len(EffectiveSteps(heap[autos[i].script].val))
    /\ \E m \in MutTargets \cup {"none"} :
         /\ m # "none" => mutations < MaxMutations
         /\ heap' = MutateThrough(heap, autos[i], m, i)
         /\ mutations' = IF m = "none" THEN mutations ELSE mutations + 1
    /\ executed' = executed \cup {<<i, EffectiveSteps(heap[autos[i].script].val)[stepPos]>>}
    /\ \E sig \in RaisedSignals :
         /\ signals' = signals \cup {[item |-> i, kind |-> sig.kind, code |-> sig.code,
                                      at |-> "seq_run"]}
         /\ \/ sig.kind = "skip" /\ OnSkip
            \/ sig.kind = "abort" /\ OnAbort(sig.code)
            \/ sig.kind = "interrupt" /\ OnKeyboardInterrupt
            \/ sig.kind = "error" /\ OnOtherException
    /\ UNCHANGED <<csvfile, PROGRESS_BAR, batch_items, cmd_class, i, autos, built, stepPos, tempdir, files, time_id, screen, overview, fifoLines, observed, launchRc, loaded>>

\* line 94: auto.run() returns after its last effective step
RunComplete ==
    /\ pc = "seq_run"
    /\ stepPos > Len(EffectiveSteps(heap[autos[i].script].val))
    /\ pc' = "seq_next"
    /\ UNCHANGED <<heap, csvfile, PROGRESS_BAR, batch_items, cmd_class, i, autos, built,
                   stepPos, executed, signals, warnings, exitStatus, exc, mutations, tempdir, files, time_id, screen, overview, fifoLines, observed, launchRc, loaded>>

\* ------------------------------------------------------ run_parallel_screens
Times == {7}

LaunchFailureCodes == {1, 127}

FinishedFile(t) == [kind |-> "finished", n |-> t]

NoFiles == [f \in {} |-> 0]

\* mutant of AutoFile: the index is missing from the file name
AutoFile_no_index(k) == [kind |-> "auto", n |-> 0]

\* line 129: f'{tempdir}/auto{i}'
AutoFile(k) == [kind |-> "auto", n |-> k]

\* mutant of pickle_dump: the object is written as it was before its
\* command counter was set
pickle_dump_unprepared(auto, h) ==
    [script |-> h[auto.script].val, variables |-> h[auto.variables].val,
     config |-> h[auto.config].val, cmd_args |-> h[auto.cmd_args].val,
     cmd_class |-> auto.cmd_class, batch_index |-> auto.batch_index,
     command_count |-> {}]

\* lines 129-130: pickle.dump(obj=auto, file=f): the object graph by value
pickle_dump(auto, h) ==
    [script |-> h[auto.script].val, variables |-> h[auto.variables].val,
     config |-> h[auto.config].val, cmd_args |-> h[auto.cmd_args].val,
     cmd_class |-> auto.cmd_class, batch_index |-> auto.batch_index,
     command_count |-> auto.command_count]

\* open(name, 'wb') and a write: the file is created or overwritten
WriteFile(fs, name, content) ==
    Put(fs, name, [content |-> content,
                   writes |-> IF name \in DOMAIN fs THEN fs[name].writes + 1 ELSE 1])

\* leaving the with block of line 111: the directory and its content are removed
Cleanup ==
    /\ tempdir' = "removed"
    /\ files' = NoFiles

\* lines 107-112
ParStart ==
    /\ pc = "par_start"
    /\ IF PROGRESS_BAR
       THEN /\ cmd_class' = CommandClassOf(CONFIG)
            /\ heap' = SetVal(heap, ConfigRef, ConfigAfterCommandClass(CONFIG))
            /\ tempdir' = "exists"
            /\ pc' = "par_next"
            /\ exc' = exc
       ELSE \* line 107: the name progress_bar is not bound
            /\ pc' = "raised"
            /\ exc' = "NameError"
            /\ UNCHANGED <<cmd_class, heap, tempdir>>
    /\ UNCHANGED <<csvfile, PROGRESS_BAR, batch_items, i, autos, built, stepPos, executed,
                   signals, warnings, exitStatus, mutations, files, time_id, screen,
                   overview, fifoLines, observed, launchRc, loaded>>

\* mutant of ParNext: the loop is left after its first pass
ParNext_launch_early ==
    /\ pc = "par_next"
    /\ IF i < Len(batch_items) /\ i < 1
       THEN i' = i + 1 /\ pc' = "par_build"
       ELSE i' = i /\ pc' = "par_mkfifo"
    /\ UNCHANGED <<heap, csvfile, PROGRESS_BAR, batch_items, cmd_class, autos, built,
                   stepPos, executed, signals, warnings, exitStatus, exc, mutations,
                   tempdir, files, time_id, screen, overview, fifoLines, observed, launchRc, loaded>>

\* line 113: the for loop takes the next row, or ends
ParNext ==
    /\ pc = "par_next"
    /\ IF i < Len(batch_items)
       THEN i' = i + 1 /\ pc' = "par_build"
       ELSE i' = i /\ pc' = "par_mkfifo"
    /\ UNCHANGED <<heap, csvfile, PROGRESS_BAR, batch_items, cmd_class, autos, built,
                   stepPos, executed, signals, warnings, exitStatus, exc, mutations,
                   tempdir, files, time_id, screen, overview, fifoLines, observed, launchRc, loaded>>

\* lines 114-127
ParBuild ==
    /\ pc = "par_build"
    /\ LET b == BuildContext(heap, batch_items[i], i, cmd_class, 1)
       IN  /\ heap' = b.heap
           /\ autos' = Append(autos, b.auto)
    /\ built' = Append(built, <<batch_items[i], i>>)
    /\ pc' = "par_count"
    /\ UNCHANGED <<csvfile, PROGRESS_BAR, batch_items, cmd_class, i, stepPos, executed,
                   signals, warnings, exitStatus, exc, mutations, tempdir, files, time_id,
                   screen, overview, fifoLines, observed, launchRc, loaded>>

\* line 128
ParSetCommandCount ==
    /\ pc = "par_count"
    /\ autos' = [autos EXCEPT ![Len(autos)] = set_command_count(autos[Len(autos)], heap)]
    /\ pc' = "par_dump"
    /\ UNCHANGED <<heap, csvfile, PROGRESS_BAR, batch_items, cmd_class, i, built, stepPos,
                   executed, signals, warnings, exitStatus, exc, mutations, tempdir, files,
                   time_id, screen, overview, fifoLines, observed, launchRc, loaded>>

\* lines 129-130
ParDump ==
    /\ pc = "par_dump"
    /\ files' = WriteFile(files, AutoFile(i), pickle_dump(autos[Len(autos)], heap))
    /\ pc' = "par_next"
    /\ UNCHANGED <<heap, csvfile, PROGRESS_BAR, batch_items, cmd_class, i, autos, built,
                   stepPos, executed, signals, warnings, exitStatus, exc, mutations,
                   tempdir, time_id, screen, overview, fifoLines, observed, launchRc, loaded>>

\* lines 132-133: time_id = round(time()); os.mkfifo(...)
ParMkfifo ==
    /\ pc = "par_mkfifo"
    /\ \E t \in Times :
         /\ time_id' = {t}
         /\ files' = WriteFile(files, FinishedFile(t), "fifo")
    /\ pc' = "par_launch"
    /\ UNCHANGED <<heap, csvfile, PROGRESS_BAR, batch_items, cmd_class, i, autos, built,
                   stepPos, executed, signals, warnings, exitStatus, exc, mutations,
                   tempdir, screen, overview, fifoLines, observed, launchRc, loaded>>

\* lines 134-137: subprocess.run(..., shell=True) without check=True.  The
\* screen session starts attached and subprocess.run waits for the command
LaunchStarts ==
    /\ pc = "par_launch"
    /\ screen' = "attached"
    /\ overview' = "running"
    /\ pc' = "par_screen"
    /\ UNCHANGED <<heap, csvfile, PROGRESS_BAR, batch_items, cmd_class, i, autos, built,
                   stepPos, executed, signals, warnings, exitStatus, exc, mutations,
                   tempdir, files, time_id, fifoLines, observed, launchRc, loaded>>

\* lines 134-137: the command ends unsuccessfully (screen missing, session
\* refused); subprocess.run returns a CompletedProcess whose returncode
\* nobody reads, and run_parallel_screens goes on to line 138
LaunchFails ==
    /\ pc = "par_launch"
    /\ \E rc \in LaunchFailureCodes : launchRc' = {rc}
    /\ screen' = "failed"
    /\ pc' = "par_open"
    /\ UNCHANGED <<heap, csvfile, PROGRESS_BAR, batch_items, cmd_class, i, autos, built,
                   stepPos, executed, signals, warnings, exitStatus, exc, mutations,
                   tempdir, files, time_id, overview, fifoLines, observed, loaded>>

\* lines 134-137: the screen command returns: its session ended, or the
\* user detached it
ScreenReturns ==
    /\ pc = "par_screen"
    /\ \/ overview \in {"exited", "crashed"} /\ screen' = "ended"
       \/ overview \notin {"exited", "crashed"} /\ screen' = "detached"
    /\ launchRc' = {0}
    /\ pc' = "par_open"
    /\ UNCHANGED <<heap, csvfile, PROGRESS_BAR, batch_items, cmd_class, i, autos, built,
                   stepPos, executed, signals, warnings, exitStatus, exc, mutations,
                   tempdir, files, time_id, overview, fifoLines, observed, loaded>>

\* mutant of FifoOpened: the open for reading does not wait for a writer
FifoOpened_nonblocking ==
    /\ pc = "par_open"
    /\ pc' = "par_read"
    /\ overview' = IF overview = "opening" THEN "open" ELSE overview
    /\ UNCHANGED <<heap, csvfile, PROGRESS_BAR, batch_items, cmd_class, i, autos, built,
                   stepPos, executed, signals, warnings, exitStatus, exc, mutations,
                   tempdir, files, time_id, screen, fifoLines, observed, launchRc, loaded>>

\* line 138 and the writer's open: opening a FIFO blocks until the other
\* end is opened too, so both opens complete together
FifoOpened ==
    /\ pc = "par_open"
    /\ overview = "opening"
    /\ pc' = "par_read"
    /\ overview' = "open"
    /\ UNCHANGED <<heap, csvfile, PROGRESS_BAR, batch_items, cmd_class, i, autos, built,
                   stepPos, executed, signals, warnings, exitStatus, exc, mutations,
                   tempdir, files, time_id, screen, fifoLines, observed, launchRc, loaded>>

WriterOpen == overview \in {"open", "written"}

\* mutant of LoopEnds: the loop breaks after the first line
LoopEnds_break == observed >= 1 \/ (fifoLines = 0 /\ ~WriterOpen)

\* lines 140-141: `for _ in fifo` ends at end of file: nothing left to
\* read and no writer holding the channel open
LoopEnds == fifoLines = 0 /\ ~WriterOpen

ReadLine ==
    /\ pc = "par_read"
    /\ fifoLines > 0
    /\ fifoLines' = fifoLines - 1
    /\ observed' = observed + 1
    /\ UNCHANGED <<pc, heap, csvfile, PROGRESS_BAR, batch_items, cmd_class, i, autos, built,
                   stepPos, executed, signals, warnings, exitStatus, exc, mutations,
                   tempdir, files, time_id, screen, overview, launchRc, loaded>>

\* lines 140-142: end of file ends the loop; the with blocks are left
ReadEof ==
    /\ pc = "par_read"
    /\ LoopEnds
    /\ Cleanup
    /\ pc' = "returned"
    /\ UNCHANGED <<heap, csvfile, PROGRESS_BAR, batch_items, cmd_class, i, autos, built,
                   stepPos, executed, signals, warnings, exitStatus, exc, mutations,
                   time_id, screen, overview, fifoLines, observed, launchRc, loaded>>

\* mutant of ParRaises: the directory is removed only on the normal path
ParRaises_no_cleanup ==
    /\ pc \in {"par_next", "par_build", "par_count", "par_dump", "par_mkfifo",
               "par_launch", "par_screen", "par_open", "par_read"}
    /\ \E e \in {"OSError", "KeyboardInterrupt"} : exc' = e
    /\ UNCHANGED <<tempdir, files>>
    /\ pc' = "raised"
    /\ UNCHANGED <<heap, csvfile, PROGRESS_BAR, batch_items, cmd_class, i, autos, built,
                   stepPos, executed, signals, warnings, exitStatus, mutations,
                   time_id, screen, overview, fifoLines, observed, launchRc, loaded>>

\* an exception inside the with block of line 111 (an OSError of open,
\* pickle.dump, mkfifo or subprocess.run, or a KeyboardInterrupt)
ParRaises ==
    /\ pc \in {"par_next", "par_build", "par_count", "par_dump", "par_mkfifo",
               "par_launch", "par_screen", "par_open", "par_read"}
    /\ \E e \in {"OSError", "KeyboardInterrupt"} : exc' = e
    /\ Cleanup
    /\ pc' = "raised"
    /\ UNCHANGED <<heap, csvfile, PROGRESS_BAR, batch_items, cmd_class, i, autos, built,
                   stepPos, executed, signals, warnings, exitStatus, mutations,
                   time_id, screen, overview, fifoLines, observed, launchRc, loaded>>

\* ------------------------------------------------- the overview process
\* (parallel.py, not in src): it runs the prepared contexts and, when all
\* of them are finished, writes to the rendezvous channel
\* pickle.load of one auto{i} file in another process: new objects, in
\* a heap of that process, holding the pickled contents
pickle_load(content) ==
    [heap |-> [r \in 1..4 |->
                 [val |-> CASE r = 1 -> content.script
                            [] r = 2 -> content.variables
                            [] r = 3 -> content.config
                            [] r = 4 -> content.cmd_args,
                  mark |-> 0]],
     auto |-> [script |-> 1, variables |-> 2, config |-> 3, cmd_args |-> 4,
               cmd_class |-> content.cmd_class, batch_index |-> content.batch_index,
               command_count |-> content.command_count]]

\* the overview side reads every prepared context from the directory
OverviewLoads ==
    /\ overview = "running"
    /\ tempdir = "exists"
    /\ loaded' = [k \in 1..Len(batch_items) |-> pickle_load(files[AutoFile(k)].content)]
    /\ overview' = "loaded"
    /\ UNCHANGED <<pc, heap, csvfile, PROGRESS_BAR, batch_items, cmd_class, i, autos, built,
                   stepPos, executed, signals, warnings, exitStatus, exc, mutations,
                   tempdir, files, time_id, screen, fifoLines, observed, launchRc>>

OverviewFinishes ==
    /\ overview = "loaded"
    /\ overview' = "opening"
    /\ UNCHANGED <<pc, heap, csvfile, PROGRESS_BAR, batch_items, cmd_class, i, autos, built,
                   stepPos, executed, signals, warnings, exitStatus, exc, mutations,
                   tempdir, files, time_id, screen, fifoLines, observed, launchRc, loaded>>

OverviewWrites ==
    /\ overview = "open"
    /\ fifoLines' = fifoLines + 1
    /\ overview' = "written"
    /\ UNCHANGED <<pc, heap, csvfile, PROGRESS_BAR, batch_items, cmd_class, i, autos, built,
                   stepPos, executed, signals, warnings, exitStatus, exc, mutations,
                   tempdir, files, time_id, screen, observed, launchRc, loaded>>

OverviewCloses ==
    /\ overview = "written"
    /\ overview' = "exited"
    /\ UNCHANGED <<pc, heap, csvfile, PROGRESS_BAR, batch_items, cmd_class, i, autos, built,
                   stepPos, executed, signals, warnings, exitStatus, exc, mutations,
                   tempdir, files, time_id, screen, fifoLines, observed, launchRc, loaded>>

\* the overview process dies without signalling
OverviewCrashes ==
    /\ overview \in {"running", "loaded", "opening", "open"}
    /\ overview' = "crashed"
    /\ UNCHANGED <<pc, heap, csvfile, PROGRESS_BAR, batch_items, cmd_class, i, autos, built,
                   stepPos, executed, signals, warnings, exitStatus, exc, mutations,
                   tempdir, files, time_id, screen, fifoLines, observed, launchRc, loaded>>

\* mutant of MainDispatch: the parallel flag alone selects the dispatcher
MainDispatch_parallel_flag_only ==
    /\ pc = "dispatch"
    /\ pc' = IF args.parallel THEN "par_start" ELSE "seq_start"
    /\ UNCHANGED <<heap, csvfile, PROGRESS_BAR, batch_items, cmd_class, i, autos, built,
                   stepPos, executed, signals, warnings, exitStatus, exc, mutations, tempdir, files, time_id, screen, overview, fifoLines, observed, launchRc, loaded>>

\* ------------------------------------------------------------------- main
\* lines 165-168
MainDispatch ==
    /\ pc = "dispatch"
    /\ pc' = IF args.vars_file /\ args.parallel THEN "par_start" ELSE "seq_start"
    /\ UNCHANGED <<heap, csvfile, PROGRESS_BAR, batch_items, cmd_class, i, autos, built,
                   stepPos, executed, signals, warnings, exitStatus, exc, mutations, tempdir, files, time_id, screen, overview, fifoLines, observed, launchRc, loaded>>

\* lines 169-175: main returns and the process ends normally
MainEnd ==
    /\ pc = "returned"
    /\ pc' = "finished"
    /\ exitStatus' = {0}
    /\ UNCHANGED <<heap, csvfile, PROGRESS_BAR, batch_items, cmd_class, i, autos, built,
                   stepPos, executed, signals, warnings, exc, mutations, tempdir, files, time_id, screen, overview, fifoLines, observed, launchRc, loaded>>

Next ==
    \/ GetScriptAndBatchItems
    \/ MainDispatch
    \/ SeqStart
    \/ SeqNext
    \/ SeqBuild
    \/ SeqSetCommandCount
    \/ InterruptOutsideTry
    \/ RunStepOk
    \/ RunStepRaises
    \/ RunComplete
    \/ ParStart
    \/ ParNext
    \/ ParBuild
    \/ ParSetCommandCount
    \/ ParDump
    \/ ParMkfifo
    \/ LaunchStarts
    \/ LaunchFails
    \/ ScreenReturns
    \/ FifoOpened
    \/ ReadLine
    \/ ReadEof
    \/ ParRaises
    \/ OverviewLoads
    \/ OverviewFinishes
    \/ OverviewWrites
    \/ OverviewCloses
    \/ OverviewCrashes
    \/ MainEnd

Spec == Init /\ [][Next]_vars

\* ================================================================ claims
Sequential == ~(args.vars_file /\ args.parallel)

M == Len(batch_items)

StepsOf(k) == {e \in executed : e[1] = k}

Raised(k, kind) == \E s \in signals : s.item = k /\ s.kind = kind

\* C1: a SkipBatchItemException raised by item k ends item k only.  Once
\* item k has been skipped no further step of it is started; the loop is
\* back at its head with item k + 1 next (or has already taken it); the run
\* is never ended by the skip; and a run that returns has attempted all M
\* items, however many were skipped.
C1_SkipState ==
    /\ \A k \in 1..M : Raised(k, "skip") =>
          /\ (pc = "seq_next" /\ i = k) \/ i > k \/ (k = M /\ pc \in {"returned", "finished"})
          /\ pc \in {"exited", "raised"} => i > k
    /\ (Sequential /\ pc \in {"returned", "finished"}) => (i = M /\ Len(built) = M)

C1_SkipAction == \A k \in 1..M : Raised(k, "skip") => StepsOf(k)' = StepsOf(k)

C1_SkipContinues == [](C1_SkipState) /\ [][C1_SkipAction]_vars

C1_Witness ==
    /\ pc = "finished"
    /\ M = 2
    /\ Raised(1, "skip")
    /\ StepsOf(1) = {<<1, 1>>, <<1, 2>>}
    /\ StepsOf(2) = {<<2, 1>>, <<2, 2>>, <<2, 3>>}

\* C2: an AbortException with code c raised by item k ends the process
\* with exit status c, and no item after k is built or attempted.
C2_AbortExits ==
    \A s \in signals : s.kind = "abort" =>
        /\ pc = "exited"
        /\ exitStatus = {s.code}
        /\ i = s.item
        /\ Len(built) = s.item
        /\ Len(autos) = s.item
        /\ \A e \in executed : e[1] <= s.item

C2_Witness ==
    /\ M = 2
    /\ \E s \in signals : s.kind = "abort" /\ s.item = 1 /\ s.code = 2
    /\ exitStatus = {2}

\* C3: a KeyboardInterrupt arriving anywhere in the batch loop (while the
\* context is built, while the command counter is computed, while the steps
\* run) gives exit status 130 after exactly one warning, and ends the run.
C3_InterruptAnywhere ==
    \A s \in signals : s.kind = "interrupt" =>
        /\ pc = "exited"
        /\ exitStatus = {130}
        /\ warnings = 1

\* C4: the sequential orchestrator builds the contexts in source order, the
\* n-th one from row n with index n, and a run over M >= 1 rows that returns
\* has built exactly M of them: the indices used are exactly 1..M.
C4_BuildsEachRowOnce ==
    Sequential =>
        /\ Len(autos) = Len(built)
        /\ Len(built) <= M
        /\ \A n \in 1..Len(built) :
              /\ built[n] = <<batch_items[n], n>>
              /\ autos[n].batch_index = n
        /\ pc \in {"returned", "finished"} => {b[2] : b \in {built[n] : n \in 1..Len(built)}} = 1..M

C4_Witness ==
    /\ Sequential
    /\ pc = "finished"
    /\ M = 2
    /\ Len(built) = 2
    /\ built[1][1] # built[2][1]

\* C5 (as claimed): no context shares mutable state with another item's
\* context: whatever object a context holds (script copy, variables, config,
\* command-line arguments), it never shows a mutation that was made
\* through another item's context.
C5_NothingShared ==
    \A n \in 1..Len(autos) : \A f \in MutTargets : heap[autos[n][f]].mark \in {0, n}

\* C5 (amended): the script copy and the variables of a context are objects
\* of that context alone (not the template's, not another item's), and a
\* mutation made through another item's context never shows in them; the
\* config and the command-line arguments are the same two objects in every
\* context of the launching process.
OwnObjects(n) == {autos[n].script, autos[n].variables}

C5_ScriptAndVariablesIsolated ==
    \A n \in 1..Len(autos) :
        /\ ScriptRef \notin OwnObjects(n)
        /\ heap[ScriptRef].mark = 0
        /\ \A r \in OwnObjects(n) : heap[r].mark \in {0, n}
        /\ \A m \in 1..Len(autos) : m # n => OwnObjects(n) \cap OwnObjects(m) = {}
        /\ autos[n].config = ConfigRef
        /\ autos[n].cmd_args = ArgsRef

C5_Witness ==
    /\ Len(autos) = 2
    /\ heap[autos[1].script].mark = 1
    /\ heap[autos[2].script].mark = 0
    /\ heap[autos[1].script].val.vars.host = "a"
    /\ heap[autos[2].script].val.vars.host = "b"

\* C6: once get_script_and_batch_items has returned, no step of either
\* orchestrator changes the script template: every row update and every
\* mutation made by a run lands in a per-item copy.
C6_TemplateUnchanged == [][pc # "main" => heap'[ScriptRef] = heap[ScriptRef]]_vars

C6_Witness ==
    /\ pc = "finished"
    /\ M = 2
    /\ Raised(1, "skip")
    /\ heap[autos[1].script].val.vars.host = "a"
    /\ heap[autos[2].script].mark = 2
    /\ heap[ScriptRef].val.vars.host = "d"

\* C7: from the moment the overview process is launched until the
\* temporary directory is removed, the directory holds exactly the M files
\* auto1..autoM, each written once and each holding the context of its own
\* row, and exactly one rendezvous channel; also for M = 0.
LaunchedPcs == {"par_launch", "par_screen", "par_open", "par_read"}

C7_FilesAtLaunch ==
    pc \in LaunchedPcs =>
        /\ tempdir = "exists"
        /\ Cardinality(time_id) = 1
        /\ DOMAIN files = {[kind |-> "auto", n |-> k] : k \in 1..M}
                             \cup {[kind |-> "finished", n |-> t] : t \in time_id}
        /\ \A f \in DOMAIN files : files[f].writes = 1
        /\ \A k \in 1..M :
              files[[kind |-> "auto", n |-> k]].content.variables.host = batch_items[k].host

C7_Witness ==
    /\ pc = "par_launch"
    /\ M = 2
    /\ Cardinality(DOMAIN files) = 3

\* C8 (as claimed): the launching process returns from run_parallel_screens
\* only after exactly one completion signal has been read.
C8_ExactlyOneSignal ==
    (~Sequential /\ pc \in {"returned", "finished"}) => observed = 1

\* C8 (amended): the launching process returns only at end of file of the
\* rendezvous channel: a writer has opened it and is gone, every line
\* written has been read, which is one line if the overview wrote its
\* signal and none if it died before writing.  A first line read does not
\* end the wait while the writer still holds the channel open.
C8_ReturnsAtEndOfFile ==
    (~Sequential /\ pc \in {"returned", "finished"}) =>
        /\ overview \in {"exited", "crashed"}
        /\ fifoLines = 0
        /\ observed = IF overview = "exited" THEN 1 ELSE 0

C8_Witness ==
    /\ ~Sequential
    /\ pc = "returned"
    /\ observed = 1
    /\ overview = "exited"

\* C10: a launch command that ends unsuccessfully makes the error leave
\* run_parallel_screens at once; the launcher does not go on to the wait on
\* the rendezvous channel.
C10_FailedLaunchPropagates ==
    \A rc \in launchRc : rc # 0 => (pc = "raised" /\ exc # "none")

\* ------------------------------------------- step-selection specification
\* every argument string up to MaxArgLen, on a run without a CSV file whose
\* steps all complete
InitSel == InitWith(ArgStrings, {FALSE}, {FALSE})

NextSel ==
    \/ GetScriptAndBatchItems
    \/ MainDispatch
    \/ SeqStart
    \/ SeqNext
    \/ SeqBuild
    \/ SeqSetCommandCount
    \/ RunStepOk
    \/ RunComplete
    \/ MainEnd

SpecSel == InitSel /\ [][NextSel]_vars

\* an argument of the form [e]N,N,...: after the optional marker, groups of
\* digits separated by single commas
Body(s) == IF Len(s) > 0 /\ s[1] = "e" THEN SubSeq(s, 2, Len(s)) ELSE s

WellFormed(s) ==
    /\ Len(Body(s)) > 0
    /\ \A k \in 1..Len(Body(s)) : Body(s)[k] \in Digits \cup {","}
    /\ Body(s)[1] # ","
    /\ Body(s)[Len(Body(s))] # ","
    /\ \A k \in 1..(Len(Body(s)) - 1) : ~(Body(s)[k] = "," /\ Body(s)[k + 1] = ",")

RECURSIVE Pow10(_)
Pow10(n) == IF n = 0 THEN 1 ELSE 10 * Pow10(n - 1)

RECURSIVE Decimal(_, _, _)
Decimal(b, from, to) ==
    IF from > to THEN 0
    ELSE DigitVal(b[from]) * Pow10(to - from) + Decimal(b, from + 1, to)

\* the integers listed: the value of every maximal group of digits
Listed(s) ==
    {Decimal(Body(s), p, q) : <<p, q>> \in
        {<<p, q>> \in (1..Len(Body(s))) \X (1..Len(Body(s))) :
            /\ p <= q
            /\ \A k \in p..q : Body(s)[k] \in Digits
            /\ (p = 1 \/ Body(s)[p - 1] = ",")
            /\ (q = Len(Body(s)) \/ Body(s)[q + 1] = ",")}}

Expected(s) ==
    IF s[1] = "e" THEN {n \in 1..NSteps : n \notin Listed(s)}
                  ELSE {n \in 1..NSteps : n \in Listed(s)}

IsAscending(q) == \A k \in 1..(Len(q) - 1) : q[k] < q[k + 1]

Elements(q) == {q[k] : k \in 1..Len(q)}

\* C9: for an argument of the form [e]N,N,... the script gets exclude = (the
\* argument starts with e) and steps = exactly the integers listed; the
\* steps a context then runs are, in ascending script order, {1..N} minus
\* the set in exclude mode and the set intersected with {1..N} in include
\* mode; without an argument the script gets neither key.
C9_StepSelection ==
    pc # "main" =>
        IF Len(args.steps) = 0
        THEN /\ "steps" \notin DOMAIN script
             /\ "exclude" \notin DOMAIN script
             /\ \A n \in 1..Len(autos) :
                   EffectiveSteps(heap[autos[n].script].val) = [k \in 1..NSteps |-> k]
        ELSE WellFormed(args.steps) =>
             /\ exc = "none"
             /\ script.exclude = (args.steps[1] = "e")
             /\ script.steps = Listed(args.steps)
             /\ \A n \in 1..Len(autos) :
                   /\ IsAscending(EffectiveSteps(heap[autos[n].script].val))
                   /\ Elements(EffectiveSteps(heap[autos[n].script].val)) = Expected(args.steps)
                   /\ StepsOf(n) \subseteq {<<n, x>> : x \in Expected(args.steps)}
                   /\ (pc \in {"seq_next", "returned", "finished"} /\ ~Raised(n, "skip"))
                         => StepsOf(n) = {<<n, x>> : x \in Expected(args.steps)}

C9_Witness ==
    /\ args.steps = <<"e", "2">>
    /\ pc = "finished"
    /\ script.exclude
    /\ script.steps = {2}
    /\ {1, 3} \subseteq {e[2] : e \in StepsOf(1)}
    /\ 2 \notin {e[2] : e \in StepsOf(1)}

\* C11: the temporary directory exists before anything is written into it
\* and for as long as run_parallel_screens is inside its with block, and it
\* is gone, with every serialized context and the rendezvous channel,
\* however the function was left: by return after the wait, or by an error
\* or interrupt raised while serializing, creating the channel, launching
\* or waiting.
ParInside == {"par_next", "par_build", "par_count", "par_dump", "par_mkfifo",
              "par_launch", "par_screen", "par_open", "par_read"}

C11_TempdirLifetime ==
    /\ files # NoFiles => tempdir = "exists"
    /\ pc \in ParInside => tempdir = "exists"
    /\ pc \in {"returned", "finished", "raised", "exited"} =>
          (tempdir # "exists" /\ files = NoFiles)
    /\ (tempdir = "none" /\ ~Sequential) => (autos = <<>> /\ time_id = {})

C11_Witness ==
    /\ pc = "raised"
    /\ exc = "KeyboardInterrupt"
    /\ tempdir = "removed"
    /\ Len(autos) = 2
    /\ time_id # {}
    /\ screen = "attached"

\* C12: a failure of item k's run that is neither skip, abort nor interrupt
\* leaves run_batch_items (and main) as an exception: no item after k is
\* built or run, no exit status is set by the loop and the run does not
\* reach normal completion.
C12_OtherFailurePropagates ==
    \A s \in signals : s.kind = "error" =>
        /\ pc = "raised"
        /\ exc = "ExecutionError"
        /\ exitStatus = {}
        /\ i = s.item
        /\ Len(built) = s.item
        /\ \A e \in executed : e[1] <= s.item

C12_Witness ==
    /\ M = 2
    /\ Raised(1, "error")
    /\ pc = "raised"
    /\ StepsOf(1) = {<<1, 1>>, <<1, 2>>}

\* C13: what auto{k} holds is the prepared context of item k: rebuilding a
\* context from the file gives the script copy, variables, batch index and
\* command counter the original has, the counter being the one
\* set_command_count computed, and the original is not changed between its
\* preparation and its serialization (nor afterwards).
View(auto, h) ==
    [script |-> h[auto.script].val, variables |-> h[auto.variables].val,
     batch_index |-> auto.batch_index, command_count |-> auto.command_count]

C13_RoundTrip ==
    /\ \A k \in 1..Len(autos) :
          [kind |-> "auto", n |-> k] \in DOMAIN files =>
              LET l == pickle_load(files[[kind |-> "auto", n |-> k]].content)
              IN  /\ View(l.auto, l.heap) = View(autos[k], heap)
                  /\ l.auto.command_count = {Len(EffectiveSteps(l.heap[l.auto.script].val))}
    /\ \A k \in DOMAIN loaded :
          View(loaded[k].auto, loaded[k].heap) = View(autos[k], heap)
    /\ pc = "par_dump" =>
          autos[i].command_count = {Len(EffectiveSteps(heap[autos[i].script].val))}

C13_Witness ==
    /\ Len(loaded) = 2
    /\ loaded[1].heap[loaded[1].auto.variables].val.host = "a"
    /\ loaded[2].heap[loaded[2].auto.variables].val.host = "b"
    /\ loaded[2].auto.command_count # {}
    /\ loaded[2].auto.batch_index = 1

\* C14: main hands the batch to run_parallel_screens exactly when a
\* variables file and the parallel flag are both given, and to
\* run_batch_items otherwise; without a variables file the batch is one item
\* with an empty row, also when the parallel flag is given alone.
SeqPcs == {"seq_start", "seq_next", "seq_build", "seq_count", "seq_run"}

C14_DispatchSelection ==
    /\ (pc \in ParInside \cup {"par_start"} \/ tempdir # "none" \/ exc = "NameError")
          => (args.vars_file /\ args.parallel)
    /\ (pc \in SeqPcs \/ executed # {} \/ warnings > 0)
          => ~(args.vars_file /\ args.parallel)
    /\ (~args.vars_file /\ pc # "main" /\ exc # "ValueError") =>
          /\ batch_items = <<EmptyRow>>
          /\ Len(built) <= 1
          /\ \A k \in DOMAIN built : built[k] = <<EmptyRow, 1>>
          /\ \A k \in DOMAIN autos : heap[autos[k].variables].val = script.vars

C14_Witness ==
    /\ ~args.vars_file
    /\ args.parallel
    /\ pc = "finished"
    /\ built = <<(<<EmptyRow, 1>>)>>
    /\ StepsOf(1) # {}

\* C15: run_parallel_screens works in this order: the directory is created,
\* all M context files are written, the channel is created, the overview is
\* launched, the launcher opens the channel.  The channel and every context
\* file exist when the overview is spawned, and no file is written once it
\* has been spawned.
AutoFiles == {[kind |-> "auto", n |-> k] : k \in 1..M}

C15_Order ==
    /\ [](/\ files # NoFiles => tempdir = "exists"
          /\ (time_id # {} /\ tempdir = "exists") => AutoFiles \subseteq DOMAIN files
          /\ screen # "none" => time_id # {}
          /\ pc \in {"par_open", "par_read"} => screen # "none")
    /\ [][/\ (time_id = {} /\ time_id' # {}) =>
                (AutoFiles \subseteq DOMAIN files /\ Len(autos) = M)
          /\ (screen = "none" /\ screen' # "none") =>
                /\ tempdir = "exists"
                /\ AutoFiles \subseteq DOMAIN files
                /\ \A t \in time_id : [kind |-> "finished", n |-> t] \in DOMAIN files
          /\ screen # "none" => (files' = files \/ files' = NoFiles)]_vars

C15_Witness ==
    /\ pc = "par_read"
    /\ M = 2
    /\ overview = "open"
    /\ AutoFiles \subseteq DOMAIN files
    /\ \E t \in time_id : [kind |-> "finished", n |-> t] \in DOMAIN files

\* C16: with a variables file and no parallel flag the script says
\* batch_mode true and batch_items_count M and item i's context has batch
\* index i; with a variables file and the parallel flag it says batch_mode
\* false and batch_items_count 1 and every context has batch index 1, its
\* row having been applied with its own index i; without a variables file
\* neither key is touched.
BatchKeys == {"batch_mode", "batch_items_count"}

C16_BatchMetadata ==
    pc # "main" =>
        /\ (args.vars_file /\ ~args.parallel) =>
              /\ script.batch_mode = TRUE
              /\ script.batch_items_count = Len(csvfile)
              /\ exc # "ValueError" => script.batch_items_count = M
              /\ \A k \in DOMAIN autos :
                    /\ autos[k].batch_index = k
                    /\ heap[autos[k].script].val.batch_mode = TRUE
                    /\ heap[autos[k].script].val.batch_items_count = M
        /\ (args.vars_file /\ args.parallel) =>
              /\ script.batch_mode = FALSE
              /\ script.batch_items_count = 1
              /\ \A k \in DOMAIN autos :
                    /\ autos[k].batch_index = 1
                    /\ built[k] = <<batch_items[k], k>>
                    /\ heap[autos[k].script].val.batch_mode = FALSE
                    /\ heap[autos[k].script].val.batch_items_count = 1
        /\ ~args.vars_file =>
              /\ BatchKeys \cap DOMAIN script = {}
              /\ \A k \in DOMAIN autos : BatchKeys \cap DOMAIN heap[autos[k].script].val = {}

C16_Witness ==
    /\ args.vars_file
    /\ args.parallel
    /\ Len(autos) = 2
    /\ autos[2].batch_index = 1
    /\ built[2] = <<RowAt(2), 2>>
    /\ script.batch_items_count = 1

\* C17: the command counter of a context is set exactly once, after the
\* context is built and before its run starts (sequential) or before it is
\* written to its file (parallel); it is never set again, and no context
\* is run or serialized with an unset counter.
C17_CounterSetOnce ==
    /\ [](/\ pc \in {"seq_count", "par_count"} => autos[Len(autos)].command_count = {}
          /\ \A k \in DOMAIN autos :
                (k < Len(autos) \/ pc \in {"seq_next", "seq_run", "par_dump", "par_next"})
                    => Cardinality(autos[k].command_count) = 1
          /\ pc = "seq_run" => autos[i].command_count # {}
          /\ \A e \in executed : autos[e[1]].command_count # {}
          /\ \A f \in DOMAIN files :
                f.kind = "auto" => files[f].content.command_count # {})
    /\ [][\A k \in DOMAIN autos :
            /\ k \in DOMAIN autos'
            /\ autos[k].command_count # {} => autos'[k] = autos[k]
            /\ autos'[k].command_count # autos[k].command_count =>
                  (pc \in {"seq_count", "par_count"} /\ k = Len(autos))]_vars

C17_Witness ==
    /\ pc = "seq_run"
    /\ i = 2
    /\ StepsOf(2) # {}
    /\ autos[1].command_count # {}
    /\ autos[2].command_count = {Len(EffectiveSteps(heap[autos[2].script].val))}

\* C18 as stated: when no writer ever opens the channel the launcher stays
\* in its wait for ever and the temporary directory is never removed.
NoWriterEver == overview \in {"none", "crashed"}

C18_BlockedForEver ==
    [][(pc = "par_open" /\ NoWriterEver) => (pc' = "par_open" /\ tempdir' = "exists")]_vars

\* C18 amended: a launcher waiting for a writer that never opens the channel
\* never returns and never logs completion: it has no timeout and leaves
\* the wait only by an exception raised into it (an interrupt), which
\* removes the temporary directory.  The wait is left for the read loop
\* only when a writer opens the channel, and run_parallel_screens returns
\* only from the read loop.
C18_BlockedUntilRaised ==
    [][/\ (pc = "par_open" /\ NoWriterEver) =>
              \/ pc' = "par_open" /\ tempdir' = "exists" /\ files' = files /\ observed' = 0
              \/ /\ pc' = "raised"
                 /\ exc' \in {"OSError", "KeyboardInterrupt"}
                 /\ tempdir' = "removed"
                 /\ observed' = 0
       /\ (pc # "par_read" /\ pc' = "par_read") => (pc = "par_open" /\ overview = "opening")
       /\ (~Sequential /\ pc # "returned" /\ pc' = "returned") => pc = "par_read"]_vars

C18_Witness ==
    /\ pc = "par_open"
    /\ overview = "crashed"
    /\ screen = "ended"
    /\ tempdir = "exists"
    /\ observed = 0

\* C19: the launcher is never waiting for the attached launch command to
\* return while the overview, its work done, waits for a reader of the
\* channel before it can write and exit.
C19_NoLaunchWaitDeadlock ==
    ~(pc = "par_screen" /\ screen = "attached" /\ overview = "opening")

\* C20: with the optional progress-bar module missing, parallel dispatch
\* still gets to building and serializing its contexts: it does not end in
\* an error before the first context is built.
C20_ParallelWithoutProgressBar ==
    (~PROGRESS_BAR /\ args.vars_file /\ args.parallel) =>
        ~(pc = "raised" /\ exc = "NameError" /\ autos = <<>> /\ tempdir = "none")

====
